---- MODULE Spec2Model ----
(***************************************************************************)
(* Atlas Code Wiki: the query-to-agent-workflow dispatcher, the session    *)
(* state machine of App (submit, streamed chunks, completion, reveal       *)
(* timers), the completion gateway and the repository import flow.         *)
(*                                                                         *)
(* Strings are sequences of one-character strings, so that the substring   *)
(* tests, lower-casing, trimming and concatenations of the code are        *)
(* computed and not assumed. A code point outside ASCII is written as one  *)
(* element "U+XXXX". Texts whose characters no code path inspects (file    *)
(* contents, the model's summary) are one opaque element.                  *)
(***************************************************************************)
EXTENDS Naturals, Sequences, FiniteSets

VARIABLES
  state,              \* AppState: messages, isThinking, activeAgents, currentFile, repoStructure
  isIngesting,        \* App: import busy flag
  now,                \* Date.now(), in ms since the page was loaded
  calls,              \* one record per invocation of handleSendMessage
  imports,            \* one record per invocation of handleImportRepo
  query,              \* dispatcher: the query string under test
  dispatched,         \* dispatcher: getAgentWorkflow has been applied
  workflow,           \* dispatcher: its result
  prompt,             \* prompt assembly: the prompt built for query in state
  assembled           \* prompt assembly: the prompt has been built

vars == <<state, isIngesting, now, calls, imports,
          query, dispatched, workflow, prompt, assembled>>

sessionVars == <<state, isIngesting, now, calls, imports>>

dispatchVars == <<query, dispatched, workflow>>

assemblyVars == <<prompt, assembled>>

(***************************************************************************)
(* Bounds of the model.                                                    *)
(***************************************************************************)
\* words per query given to the dispatcher
MaxWords == 2

(***************************************************************************)
(* types.ts                                                                *)
(***************************************************************************)
ATLAS == "Atlas (Orchestrator)"

EXPLORER == "Explorer"

EXPLAINER == "Explainer"

ARCHITECT == "Architect"

CHANGE_IMPACT == "ChangeImpact"

SECURITY == "Security"

GENERATOR == "Generator"

REFACTORER == "Refactorer"

AgentType == {ATLAS, EXPLORER, EXPLAINER, ARCHITECT, CHANGE_IMPACT, SECURITY, GENERATOR, REFACTORER}

(***************************************************************************)
(* String primitives of the runtime, on sequences of characters.           *)
(***************************************************************************)
UpperCase == <<"A","B","C","D","E","F","G","H","I","J","K","L","M","N","O","P","Q","R","S","T","U","V","W","X","Y","Z">>

LowerCase == <<"a","b","c","d","e","f","g","h","i","j","k","l","m","n","o","p","q","r","s","t","u","v","w","x","y","z">>

LowerOf == [c \in {UpperCase[k] : k \in DOMAIN UpperCase} |->
              LowerCase[CHOOSE k \in DOMAIN UpperCase : UpperCase[k] = c]]

lowerChar(c) == IF c \in DOMAIN LowerOf THEN LowerOf[c] ELSE c

\* String.prototype.toLowerCase
toLowerCase(s) == [i \in 1..Len(s) |-> lowerChar(s[i])]

\* t occurs in s at offset i
occursAt(s, t, i) == \A j \in 1..Len(t) : s[i + j] = t[j]

\* String.prototype.includes: t occurs in s as a contiguous substring
includes(s, t) == \E i \in 0..(Len(s) - Len(t)) : occursAt(s, t, i)

(***************************************************************************)
(* App.tsx: getAgentWorkflow                                               *)
(***************************************************************************)
\* Object.entries(workflowDefinitions): the entries in declaration order
workflowDefinitions ==
  << [trigger |-> <<"g","e","n","e","r","a","t","e">>,     agents |-> <<ARCHITECT, GENERATOR, SECURITY>>],
     [trigger |-> <<"c","r","e","a","t","e">>,       agents |-> <<ARCHITECT, GENERATOR, SECURITY>>],
     [trigger |-> <<"w","r","i","t","e">>,        agents |-> <<ARCHITECT, GENERATOR, SECURITY>>],
     [trigger |-> <<"b","u","i","l","d">>,        agents |-> <<ARCHITECT, GENERATOR, SECURITY>>],
     [trigger |-> <<"i","m","p","l","e","m","e","n","t">>,    agents |-> <<ARCHITECT, GENERATOR, SECURITY>>],
     [trigger |-> <<"s","e","t","u","p">>,        agents |-> <<ARCHITECT, GENERATOR, SECURITY>>],
     [trigger |-> <<"r","e","f","a","c","t","o","r">>,     agents |-> <<REFACTORER, ARCHITECT>>],
     [trigger |-> <<"o","p","t","i","m","i","z","e">>,     agents |-> <<REFACTORER, ARCHITECT>>],
     [trigger |-> <<"i","m","p","r","o","v","e">>,      agents |-> <<REFACTORER, ARCHITECT>>],
     [trigger |-> <<"r","e","a","d","a","b","i","l","i","t","y">>,  agents |-> <<REFACTORER, ARCHITECT>>],
     [trigger |-> <<"e","x","p","l","a","i","n">>,      agents |-> <<EXPLAINER>>],
     [trigger |-> <<"i","m","p","a","c","t">>,       agents |-> <<CHANGE_IMPACT, SECURITY, ARCHITECT>>],
     [trigger |-> <<"c","h","a","n","g","e">>,       agents |-> <<CHANGE_IMPACT, SECURITY, ARCHITECT>>],
     [trigger |-> <<"a","r","c","h","i","t","e","c","t","u","r","e">>, agents |-> <<EXPLORER, ARCHITECT, EXPLAINER>>],
     [trigger |-> <<"s","t","r","u","c","t","u","r","e">>,    agents |-> <<EXPLORER, ARCHITECT, EXPLAINER>>],
     [trigger |-> <<"o","v","e","r","v","i","e","w">>,     agents |-> <<EXPLORER, ARCHITECT, EXPLAINER>>],
     [trigger |-> <<"a","u","d","i","t">>,        agents |-> <<EXPLORER, ARCHITECT, SECURITY, EXPLAINER>>] >>

defaultWorkflowAtlas == <<ATLAS>>

\* the sequence returned when the loop ends without a match
defaultWorkflow == <<EXPLORER>>

RECURSIVE workflowLoop(_, _)
\* the for loop over the entries, from entry k on: the first trigger included wins
workflowLoop(normalizedQuery, k) ==
  IF k > Len(workflowDefinitions) THEN defaultWorkflow
  ELSE IF includes(normalizedQuery, workflowDefinitions[k].trigger)
       THEN workflowDefinitions[k].agents
       ELSE workflowLoop(normalizedQuery, k + 1)

\* position of the first occurrence of t in s (String.prototype.indexOf), Len(s) + 1 if none
firstOccurrence(s, t) ==
  IF includes(s, t)
  THEN CHOOSE i \in 1..(Len(s) + 1) :
         /\ occursAt(s, t, i - 1)
         /\ \A j \in 1..(i - 1) : ~occursAt(s, t, j - 1)
  ELSE Len(s) + 1

\* a dispatcher that lets the trigger occurring first in the text win
getAgentWorkflowFirstInText(q) ==
  LET nq == toLowerCase(q)
      hits == {k \in DOMAIN workflowDefinitions : includes(nq, workflowDefinitions[k].trigger)}
  IN IF hits = {} THEN defaultWorkflow
     ELSE workflowDefinitions[CHOOSE k \in hits : \A j \in hits :
            \/ firstOccurrence(nq, workflowDefinitions[k].trigger)
                 < firstOccurrence(nq, workflowDefinitions[j].trigger)
            \/ /\ firstOccurrence(nq, workflowDefinitions[k].trigger)
                    = firstOccurrence(nq, workflowDefinitions[j].trigger)
               /\ k <= j].agents

RECURSIVE mergedFrom(_, _)
mergedFrom(normalizedQuery, k) ==
  IF k > Len(workflowDefinitions) THEN <<>>
  ELSE (IF includes(normalizedQuery, workflowDefinitions[k].trigger)
        THEN workflowDefinitions[k].agents ELSE <<>>) \o mergedFrom(normalizedQuery, k + 1)

\* a dispatcher that concatenates the sequences of all the triggers the query contains
getAgentWorkflowMerged(q) == mergedFrom(toLowerCase(q), 1)

\* t occurs in s as a whole word: between blanks or the ends of s
occursAsWord(s, t) ==
  \E i \in 0..(Len(s) - Len(t)) :
    /\ occursAt(s, t, i)
    /\ i = 0 \/ s[i] = " "
    /\ i + Len(t) = Len(s) \/ s[i + Len(t) + 1] = " "

\* a dispatcher that matches the triggers as whole words
getAgentWorkflowWholeWord(q) ==
  LET nq == toLowerCase(q)
      hits == {k \in DOMAIN workflowDefinitions : occursAsWord(nq, workflowDefinitions[k].trigger)}
  IN IF hits = {} THEN defaultWorkflow
     ELSE workflowDefinitions[CHOOSE k \in hits : \A j \in hits : k <= j].agents

\* a dispatcher that matches the triggers case-sensitively
getAgentWorkflowCaseSensitive(q) == workflowLoop(q, 1)

getAgentWorkflow(q) == workflowLoop(toLowerCase(q), 1)

(***************************************************************************)
(* More bounds of the model.                                               *)
(***************************************************************************)
\* invocations of handleSendMessage in one run
MaxSubmits == 2

\* invocations of handleImportRepo in one run
MaxImports == 2

\* invocations of handleSendMessage and handleImportRepo in one run, taken together
MaxOperations == 2

\* fragments one stream delivers (empty ones included)
MaxFragments == 2

\* milliseconds that pass between two readings of the clock, and in all after each
\* multiple of RevealInterval
MaxMs == 1

\* reveal intervals that elapse in one run
MaxIntervals == 1

(***************************************************************************)
(* More string primitives.                                                 *)
(***************************************************************************)
\* JavaScript null, in the place of a record
Null == <<>>

WhiteSpace == {" ", "\n", "\t"}

RECURSIVE trimStart(_)
trimStart(s) == IF s # <<>> /\ Head(s) \in WhiteSpace THEN trimStart(Tail(s)) ELSE s

RECURSIVE trimEnd(_)
trimEnd(s) ==
  IF s # <<>> /\ s[Len(s)] \in WhiteSpace THEN trimEnd(SubSeq(s, 1, Len(s) - 1)) ELSE s

\* String.prototype.trim
trim(s) == trimEnd(trimStart(s))

startsWith(s, p) == Len(p) <= Len(s) /\ SubSeq(s, 1, Len(p)) = p

drop(s, n) == SubSeq(s, n + 1, Len(s))

RECURSIVE split(_, _)
\* String.prototype.split on a one-character separator
split(s, sep) ==
  IF \E i \in 1..Len(s) : s[i] = sep
  THEN LET i == CHOOSE k \in 1..Len(s) : s[k] = sep /\ \A j \in 1..(k - 1) : s[j] # sep
       IN <<SubSeq(s, 1, i - 1)>> \o split(drop(s, i), sep)
  ELSE <<s>>

RECURSIVE join(_, _)
\* Array.prototype.join
join(parts, sep) ==
  IF parts = <<>> THEN <<>>
  ELSE IF Len(parts) = 1 THEN parts[1]
  ELSE parts[1] \o sep \o join(Tail(parts), sep)

has(obj, key) == key \in DOMAIN obj

\* the text a template literal interpolates for the property key of obj
interpolate(obj, key) == IF has(obj, key) THEN obj[key] ELSE <<"u","n","d","e","f","i","n","e","d">>

Range(s) == {s[i] : i \in 1..Len(s)}

(***************************************************************************)
(* constants.ts: MOCK_REPO. The content of a file is one opaque element.   *)
(***************************************************************************)
\* an optional property that is absent is no field of the record
Directory(name, path, children) ==
  [name |-> name, path |-> path, type |-> "directory", children |-> children]

File(name, path, content) ==
  [name |-> name, path |-> path, type |-> "file", content |-> content]

MOCK_REPO ==
  << Directory(<<"i","n","f","r","a">>, <<"i","n","f","r","a">>,
       << Directory(<<"d","o","c","k","e","r">>, <<"i","n","f","r","a","/","d","o","c","k","e","r">>, <<>>),
          Directory(<<"k","8","s">>, <<"i","n","f","r","a","/","k","8","s">>, <<>>) >>),
     Directory(<<"s","e","r","v","i","c","e","s">>, <<"s","e","r","v","i","c","e","s">>,
       << Directory(<<"a","p","i">>, <<"s","e","r","v","i","c","e","s","/","a","p","i">>,
            << File(<<"m","a","i","n",".","p","y">>, <<"s","e","r","v","i","c","e","s","/","a","p","i","/","m","a","i","n",".","p","y">>, <<"[text of services/api/main.py]">>),
               File(<<"a","u","t","h",".","p","y">>, <<"s","e","r","v","i","c","e","s","/","a","p","i","/","a","u","t","h",".","p","y">>, <<"[text of services/api/auth.py]">>) >>) >>),
     Directory(<<"i","n","g","e","s","t","i","o","n">>, <<"i","n","g","e","s","t","i","o","n">>,
       << File(<<"p","a","r","s","e","_","r","e","p","o",".","p","y">>, <<"i","n","g","e","s","t","i","o","n","/","p","a","r","s","e","_","r","e","p","o",".","p","y">>,
            <<"[text of ingestion/parse_repo.py]">>) >>),
     File(<<"R","E","A","D","M","E",".","m","d">>, <<"R","E","A","D","M","E",".","m","d">>, <<"[text of README.md]">>) >>

(***************************************************************************)
(* The clock and the reveal timers.                                        *)
(***************************************************************************)
\* the delay between two reveal timers of one submit, in ms
RevealInterval == 600

\* the clock may advance by d ms
ClockInRange(d) == ((now + d) % RevealInterval) <= MaxMs

(***************************************************************************)
(* App.tsx: the state updates of handleSendMessage                         *)
(***************************************************************************)
\* ids are the decimal strings of integers: the integer stands for its string
UserMessage(id, content, timestamp) ==
  [id |-> id, role |-> "user", content |-> content, timestamp |-> timestamp]

AssistantMessage(id, content, timestamp, agent) ==
  [id |-> id, role |-> "assistant", content |-> content, timestamp |-> timestamp, agent |-> agent]

\* setState of lines 73-78
submitUpdate(prev, userMessage) ==
  [prev EXCEPT !.messages = Append(prev.messages, userMessage),
               !.isThinking = TRUE,
               !.activeAgents = <<ATLAS>>]

\* an update that puts the placeholder at the front of the log
placeholderUpdateAtFront(prev, assistantPlaceholder) ==
  [prev EXCEPT !.messages = <<assistantPlaceholder>> \o prev.messages]

\* setState of lines 98-101
placeholderUpdate(prev, assistantPlaceholder) ==
  [prev EXCEPT !.messages = Append(prev.messages, assistantPlaceholder)]

RECURSIVE uniq(_)
\* Array.from(new Set(xs)): the first occurrence of each element, in order
uniq(xs) ==
  IF xs = <<>> THEN <<>>
  ELSE LET front == uniq(SubSeq(xs, 1, Len(xs) - 1))
       IN IF xs[Len(xs)] \in Range(front) THEN front ELSE Append(front, xs[Len(xs)])

\* setState of lines 82-85, run by a reveal timer
revealUpdate(prev, agent) ==
  [prev EXCEPT !.activeAgents = uniq(Append(prev.activeAgents, agent))]

\* an onChunk that keeps the last chunk only
appendChunkKeepsLast(streamedContent, chunk) == chunk

\* streamedContent += chunk, line 122
appendChunk(streamedContent, chunk) == streamedContent \o chunk

\* a chunk update that rewrites every assistant message
chunkUpdateAnyAssistant(prev, assistantId, streamedContent) ==
  [prev EXCEPT !.messages =
     [i \in 1..Len(prev.messages) |->
        IF prev.messages[i].role = "assistant"
        THEN [prev.messages[i] EXCEPT !.content = streamedContent]
        ELSE prev.messages[i]]]

\* a chunk update that takes the placeholder out of the log and puts it at the end
chunkUpdateMovingToEnd(prev, assistantId, streamedContent) ==
  [prev EXCEPT !.messages =
     SelectSeq(prev.messages, LAMBDA m : m.id # assistantId)
       \o [m \in DOMAIN SelectSeq(prev.messages, LAMBDA m : m.id = assistantId) |->
            [SelectSeq(prev.messages, LAMBDA n : n.id = assistantId)[m]
               EXCEPT !.content = streamedContent]]]

\* setState of lines 123-128, run by onChunk
chunkUpdate(prev, assistantId, streamedContent) ==
  [prev EXCEPT !.messages =
     [i \in 1..Len(prev.messages) |->
        IF prev.messages[i].id = assistantId
        THEN [prev.messages[i] EXCEPT !.content = streamedContent]
        ELSE prev.messages[i]]]

\* a completion that leaves the session thinking
completionUpdateStuck(prev) == [prev EXCEPT !.activeAgents = <<>>]

\* setState of lines 132-136
completionUpdate(prev) == [prev EXCEPT !.isThinking = FALSE, !.activeAgents = <<>>]

(***************************************************************************)
(* geminiService.ts: generateAtlasResponseStream                           *)
(***************************************************************************)
\* the texts the streams under test deliver: chunk.text of the k-th fragment of call s;
\* an empty one is skipped by the loop
StreamScripts ==
  << << <<"H","e","l","l","o",","," ">>, <<"w","o","r","l","d">>, <<>> >>,
     << <<>>, <<"O","k">> >> >>

\* a loop that keeps only the fragment it saw last
accumulateLatest(accumulator, chunkText) == chunkText

\* accumulator += chunkText, line 43
accumulate(accumulator, chunkText) == accumulator \o chunkText

FragmentAt(s, k) ==
  LET script == StreamScripts[((s - 1) % Len(StreamScripts)) + 1]
  IN script[((k - 1) % Len(script)) + 1]

\* the values the streaming calls under test throw when they fail: an Error, and a value
\* that is no Error
ThrownErrors ==
  << [instanceofError |-> TRUE, message |-> <<"q","u","o","t","a"," ","e","x","c","e","e","d","e","d">>],
     [instanceofError |-> FALSE] >>

\* the value call s throws
ThrownBy(s) == ThrownErrors[((s - 1) % Len(ThrownErrors)) + 1]

AgentErrorMarker == <<"A","g","e","n","t"," ","E","r","r","o","r">>

friendlyError(message) ==
  <<"\n","\n","*","*","A","g","e","n","t"," ","E","r","r","o","r",":","*","*"," ">> \o message \o <<"."," ","C","h","e","c","k"," ","y","o","u","r"," ","A","P","I"," ","q","u","o","t","a"," ","o","r"," ","k","e","y"," ","v","a","l","i","d","i","t","y",".">>

\* a catch clause that rethrows
catchClauseRethrows(error) == [rejects |-> TRUE, chunks |-> <<>>, result |-> <<>>]

\* the catch clause of lines 48-54: what it passes to onChunk and what the promise settles with
catchClause(error) ==
  LET message == IF error.instanceofError THEN error.message ELSE <<"U","n","k","n","o","w","n"," ","A","P","I"," ","f","a","i","l","u","r","e">>
  IN [rejects |-> FALSE, chunks |-> <<friendlyError(message)>>, result |-> friendlyError(message)]

(***************************************************************************)
(* The queries of the entry points.                                        *)
(***************************************************************************)
\* what the user types into the chat form
ChatInputs == { <<" ","E","x","p","l","a","i","n"," ","a","u","t","h"," ">>, <<" "," ">> }

\* what the user types into the generator form
GeneratorInputs == { <<"a"," ","c","a","c","h","e">>, <<" ">> }

QuickAuditQuery == <<"P","e","r","f","o","r","m"," ","a"," ","d","e","e","p"," ","a","r","c","h","i","t","e","c","t","u","r","a","l"," ","a","u","d","i","t"," ","o","f"," ","t","h","e"," ","c","o","d","e","b","a","s","e"," ","s","t","r","u","c","t","u","r","e","."," ","I","d","e","n","t","i","f","y"," ","l","a","y","e","r","s",","," ","p","a","t","t","e","r","n","s",","," ","a","n","d"," ","d","a","t","a"," ","f","l","o","w","s",".">>

QuickRefactorQuery == <<"S","u","g","g","e","s","t"," ","r","e","f","a","c","t","o","r","i","n","g"," ","f","o","r"," ","t","h","e"," ","c","u","r","r","e","n","t"," ","f","i","l","e"," ","f","o","c","u","s","i","n","g"," ","o","n"," ","r","e","a","d","a","b","i","l","i","t","y",":"," ","i","m","p","r","o","v","e"," ","v","a","r","i","a","b","l","e"," ","n","a","m","e","s",","," ","s","i","m","p","l","i","f","y"," ","c","o","n","d","i","t","i","o","n","a","l"," ","l","o","g","i","c"," ","(","u","s","e"," ","g","u","a","r","d"," ","c","l","a","u","s","e","s",")",","," ","i","d","e","n","t","i","f","y"," ","m","e","t","h","o","d","s"," ","t","o"," ","e","x","t","r","a","c","t",","," ","a","n","d"," ","a","d","d"," ","d","e","s","c","r","i","p","t","i","v","e"," ","c","o","m","m","e","n","t","s",".">>

RefactorQuery(path) ==
  <<"R","e","f","a","c","t","o","r"," ","U+0060">> \o path \o <<"U+0060"," ","f","o","r"," ","r","e","a","d","a","b","i","l","i","t","y"," ","a","n","d"," ","s","t","r","u","c","t","u","r","e","."," ","f","o","c","u","s","i","n","g"," ","o","n"," ","r","e","a","d","a","b","i","l","i","t","y",":"," ","i","m","p","r","o","v","e"," ","v","a","r","i","a","b","l","e"," ","n","a","m","e","s",","," ","s","i","m","p","l","i","f","y"," ","c","o","n","d","i","t","i","o","n","a","l"," ","l","o","g","i","c"," ","(","u","s","e"," ","g","u","a","r","d"," ","c","l","a","u","s","e","s",")",","," ","i","d","e","n","t","i","f","y"," ","m","e","t","h","o","d","s"," ","t","o"," ","e","x","t","r","a","c","t",","," ","a","n","d"," ","a","d","d"," ","d","e","s","c","r","i","p","t","i","v","e"," ","c","o","m","m","e","n","t","s",".">>

GeneratorQuery(generatorInput) ==
  <<"G","e","n","e","r","a","t","o","r"," ","A","g","e","n","t"," ","R","e","q","u","e","s","t",":"," ">> \o generatorInput \o <<"."," ","P","l","e","a","s","e"," ","g","e","n","e","r","a","t","e"," ","a"," ","r","o","b","u","s","t"," ","i","m","p","l","e","m","e","n","t","a","t","i","o","n"," ","f","o","l","l","o","w","i","n","g"," ","a","r","c","h","i","t","e","c","t","u","r","a","l"," ","p","a","t","t","e","r","n","s",","," ","i","n","c","l","u","d","i","n","g"," ","c","o","m","p","r","e","h","e","n","s","i","v","e"," ","d","o","c","s","t","r","i","n","g","s",","," ","s","t","r","i","c","t"," ","t","y","p","e"," ","s","a","f","e","t","y",","," ","a","n","d"," ","c","l","e","a","r"," ","i","n","t","e","g","r","a","t","i","o","n"," ","s","t","e","p","s",".">>

ProjectOverviewQuery == <<"P","e","r","f","o","r","m"," ","a"," ","d","e","e","p"," ","a","r","c","h","i","t","e","c","t","u","r","a","l"," ","a","u","d","i","t"," ","o","f"," ","t","h","e"," ","c","u","r","r","e","n","t"," ","p","r","o","j","e","c","t"," ","s","t","r","u","c","t","u","r","e","."," ","I","d","e","n","t","i","f","y"," ","p","r","i","m","a","r","y"," ","l","a","y","e","r","s",","," ","d","e","s","i","g","n"," ","p","a","t","t","e","r","n","s",","," ","a","n","d"," ","c","r","i","t","i","c","a","l"," ","d","a","t","a"," ","f","l","o","w"," ","p","a","t","h","s",".">>

(***************************************************************************)
(* GithubImportModal and App.tsx: handleImportRepo                         *)
(***************************************************************************)
\* what the user types into the import modal
UrlInputs == { <<"h","t","t","p","s",":","/","/","g","i","t","h","u","b",".","c","o","m","/","a","c","m","e","/","a","t","l","a","s">>, <<"a","c","m","e"," ","a","t","l","a","s">> }

WordChars ==
  Range(UpperCase) \cup Range(LowerCase)
    \cup {"0","1","2","3","4","5","6","7","8","9","_"}

\* one [\w.-]+ segment of the pattern
isSegment(s) == s # <<>> /\ \A i \in 1..Len(s) : s[i] \in WordChars \cup {".", "-"}

\* /^(https?:\/\/)?(www\.)?github\.com\/[\w.-]+\/[\w.-]+\/?$/i on the trimmed input
validateGithubUrl(input) ==
  LET s0 == toLowerCase(trim(input))
      s1 == IF startsWith(s0, <<"h","t","t","p","s",":","/","/">>) THEN drop(s0, 8)
            ELSE IF startsWith(s0, <<"h","t","t","p",":","/","/">>) THEN drop(s0, 7) ELSE s0
      s2 == IF startsWith(s1, <<"w","w","w",".">>) THEN drop(s1, 4) ELSE s1
      parts == split(drop(s2, 11), "/")
  IN /\ startsWith(s2, <<"g","i","t","h","u","b",".","c","o","m","/">>)
     /\ \/ Len(parts) = 2 /\ isSegment(parts[1]) /\ isSegment(parts[2])
        \/ Len(parts) = 3 /\ isSegment(parts[1]) /\ isSegment(parts[2]) /\ parts[3] = <<>>

\* the objects JSON.parse yields for the analysis response; a missing property is no field
WellFormedStructure ==
  << [name |-> <<"s","r","c">>, path |-> <<"s","r","c">>, type |-> "directory",
      children |-> << [name |-> <<"i","n","d","e","x",".","t","s">>, path |-> <<"s","r","c","/","i","n","d","e","x",".","t","s">>, type |-> "file"],
                      [name |-> <<"l","i","b">>, path |-> <<"s","r","c","/","l","i","b">>, type |-> "directory"] >>],
     [name |-> <<"p","a","c","k","a","g","e",".","j","s","o","n">>, path |-> <<"p","a","c","k","a","g","e",".","j","s","o","n">>, type |-> "file"] >>

AnalysisPayloads ==
  { [repoName |-> <<"A","t","l","a","s"," ","W","i","k","i">>, summary |-> <<"[summary]">>,
     stack |-> <<<<"T","y","p","e","S","c","r","i","p","t">>, <<"R","e","a","c","t">>>>, structure |-> WellFormedStructure],
    [summary |-> <<"[summary]">>, stack |-> <<<<"T","y","p","e","S","c","r","i","p","t">>>>, structure |-> WellFormedStructure],
    [repoName |-> <<"A","t","l","a","s"," ","W","i","k","i">>, summary |-> <<"[summary]">>, structure |-> WellFormedStructure],
    [summary |-> <<"[summary]">>] }

\* how the promise of analyzeGithubRepo settles
AnalysisOutcomes ==
  {[rejects |-> TRUE]} \cup {[rejects |-> FALSE, data |-> p] : p \in AnalysisPayloads}

discoveredContent(child) ==
  <<"/","/"," ","D","i","s","c","o","v","e","r","e","d"," ","r","e","m","o","t","e"," ","f","i","l","e",":"," ">> \o interpolate(child, "name")
    \o <<"\n","/","/"," ","U","s","e"," ","A","t","l","a","s"," ","a","g","e","n","t","s"," ","t","o"," ","e","x","p","l","a","i","n"," ","o","r"," ","g","e","n","e","r","a","t","e"," ","c","o","n","t","e","n","t",".">>

\* lines 157-162
mapChild(child) ==
  IF child.type = "file"
  THEN [name |-> child.name, path |-> child.path, type |-> child.type,
        content |-> discoveredContent(child)]
  ELSE [name |-> child.name, path |-> child.path, type |-> child.type]

\* lines 153-163
mapItem(item) ==
  IF has(item, "children")
  THEN [name |-> item.name, path |-> item.path, type |-> item.type,
        children |-> [j \in 1..Len(item.children) |-> mapChild(item.children[j])]]
  ELSE [name |-> item.name, path |-> item.path, type |-> item.type]

\* url.split("/").pop()
lastSegment(url) == LET parts == split(url, "/") IN parts[Len(parts)]

\* a root that takes its name from repoName whether it is there or not
newRepoNodeWithoutDefault(analysis, url) ==
  Directory(interpolate(analysis, "repoName"), url,
            [i \in 1..Len(analysis.structure) |-> mapItem(analysis.structure[i])])

\* lines 149-164
newRepoNode(analysis, url) ==
  Directory(IF has(analysis, "repoName") /\ analysis.repoName # <<>>
            THEN analysis.repoName ELSE lastSegment(url),
            url,
            [i \in 1..Len(analysis.structure) |-> mapItem(analysis.structure[i])])

\* line 166
architectSummary(analysis) ==
  <<"#","#","#"," ","U+1F6F0","U+FE0F">> \o <<" ","R","e","p","o","s","i","t","o","r","y"," ","I","n","g","e","s","t","e","d",":"," ">>
    \o interpolate(analysis, "repoName") \o <<"\n","\n">> \o interpolate(analysis, "summary")
    \o <<"\n","\n","*","*","S","t","a","c","k"," ","I","d","e","n","t","i","f","i","e","d",":","*","*","\n">>
    \o join([i \in 1..Len(analysis.stack) |-> <<"-"," ">> \o analysis.stack[i]], <<"\n">>)
    \o <<"\n","\n","*","*","E","x","p","l","o","r","e","r"," ","I","n","s","i","g","h","t","s",":","*","*","\n","A","t","l","a","s"," ","h","a","s"," ","i","d","e","n","t","i","f","i","e","d"," ","t","h","e"," ","k","e","y"," ","e","n","t","r","y"," ","p","o","i","n","t","s"," ","a","n","d"," ","m","a","p","p","e","d"," ","t","h","e"," ","f","i","r","s","t"," ","t","w","o"," ","l","e","v","e","l","s"," ","o","f"," ","t","h","e"," ","r","e","p","o","s","i","t","o","r","y"," ","s","t","r","u","c","t","u","r","e","."," ","Y","o","u"," ","c","a","n"," ","n","o","w"," ","e","x","p","l","o","r","e"," ","t","h","e"," ","f","i","l","e","s"," ","i","n"," ","t","h","e"," ","s","i","d","e","b","a","r"," ","a","n","d"," ","a","s","k"," ","f","o","r"," ","s","p","e","c","i","f","i","c"," ","m","o","d","u","l","e"," ","a","n","a","l","y","s","i","s",".">>

\* line 188
ingestionFailed(url) ==
  <<"U+274C">> \o <<" ","*","*","I","n","g","e","s","t","i","o","n"," ","F","a","i","l","e","d",":","*","*"," ","C","o","u","l","d"," ","n","o","t"," ","a","n","a","l","y","z","e"," ","r","e","p","o","s","i","t","o","r","y"," ","a","t"," ">> \o url
    \o <<"."," ","P","l","e","a","s","e"," ","e","n","s","u","r","e"," ","t","h","e"," ","U","R","L"," ","i","s"," ","v","a","l","i","d"," ","a","n","d"," ","p","u","b","l","i","c",".">>

\* the try block of lines 147-166: .map on a missing array throws a TypeError
tryBlock(outcome, url) ==
  IF outcome.rejects THEN [threw |-> TRUE]
  ELSE IF ~has(outcome.data, "structure") \/ ~has(outcome.data, "stack")
  THEN [threw |-> TRUE]
  ELSE [threw |-> FALSE,
        node |-> newRepoNode(outcome.data, url),
        summary |-> architectSummary(outcome.data)]

\* an update that puts the node in the place of a root with the same path, if there is one
importSuccessUpdateReplacing(prev, node, message) ==
  [prev EXCEPT !.repoStructure =
                 IF \E k \in DOMAIN prev.repoStructure : prev.repoStructure[k].path = node.path
                 THEN [k \in DOMAIN prev.repoStructure |->
                         IF prev.repoStructure[k].path = node.path THEN node
                         ELSE prev.repoStructure[k]]
                 ELSE Append(prev.repoStructure, node),
               !.messages = Append(prev.messages, message)]

\* setState of lines 168-178
importSuccessUpdate(prev, node, message) ==
  [prev EXCEPT !.repoStructure = Append(prev.repoStructure, node),
               !.messages = Append(prev.messages, message)]

\* a failure update that puts the forest back to the seed
importFailureUpdateResetting(prev, message) ==
  [prev EXCEPT !.repoStructure = MOCK_REPO,
               !.messages = Append(prev.messages, message)]

importFailureUpdateSilent(prev, message) == prev

\* setState of lines 181-190
importFailureUpdate(prev, message) ==
  [prev EXCEPT !.messages = Append(prev.messages, message)]

finallyClauseAfterSuccessOnly(tried) == tried.threw

\* the finally clause, lines 191-194: the value setIsIngesting is called with
finallyClause(tried) == FALSE

\* the paths of the nodes the user clicks in the sidebar: a seed file, a seed directory
\* and an imported file
ClickedPaths == { <<"R","E","A","D","M","E",".","m","d">>, <<"i","n","f","r","a">>, <<"p","a","c","k","a","g","e",".","j","s","o","n">> }

RECURSIVE filesOf(_)
\* the file nodes the sidebar can show: FileItem renders a directory's children
filesOf(nodes) ==
  IF nodes = <<>> THEN {}
  ELSE LET n == Head(nodes)
       IN (IF n.type = "file" THEN {n}
           ELSE IF has(n, "children") THEN filesOf(n.children) ELSE {})
            \cup filesOf(Tail(nodes))

RECURSIVE nodesOf(_)
\* the nodes the sidebar can show: one FileItem per node, and per child of a directory
nodesOf(nodes) ==
  IF nodes = <<>> THEN {}
  ELSE LET n == Head(nodes)
       IN {n} \cup (IF n.type = "directory" /\ has(n, "children") THEN nodesOf(n.children) ELSE {})
              \cup nodesOf(Tail(nodes))
(***************************************************************************)
(* The session: initial state and operations.                              *)
(***************************************************************************)
SessionInit ==
  /\ state = [messages |-> <<>>, isThinking |-> FALSE, activeAgents |-> <<>>,
              currentFile |-> Null, repoStructure |-> MOCK_REPO]
  /\ isIngesting = FALSE
  /\ now = 0
  /\ calls = <<>>
  /\ imports = <<>>

Init ==
  /\ SessionInit
  /\ query = <<>> /\ dispatched = FALSE /\ workflow = <<>>
  /\ prompt = <<>> /\ assembled = FALSE

conversationHistoryUnfiltered(messages) ==
  [i \in 1..Len(messages) |-> [role |-> messages[i].role, content |-> messages[i].content]]

\* lines 112-114: the messages with content, reduced to role and content
conversationHistory(messages) ==
  LET kept == SelectSeq(messages, LAMBDA m : m.content # <<>>)
  IN [i \in 1..Len(kept) |-> [role |-> kept[i].role, content |-> kept[i].content]]

\* handleSendMessage up to its await, called elapsed ms after the clock was last read: the
\* two state updates, the timers and the gateway call; its reads of Date.now() fall into
\* one millisecond. history is the second argument of the gateway call; slot, arrived and
\* delivered record what happened to the call.
handleSendMessage(userInput, elapsed) ==
  LET dateNow == now + elapsed
      userMessage == UserMessage(dateNow, userInput, dateNow)
      assistantId == dateNow + 1
      assistantPlaceholder == AssistantMessage(assistantId, <<>>, dateNow, ATLAS)
  IN /\ Len(calls) < MaxSubmits
     /\ Len(calls) + Len(imports) < MaxOperations
     /\ ClockInRange(elapsed)
     /\ now' = dateNow
     /\ state' = placeholderUpdate(submitUpdate(state, userMessage), assistantPlaceholder)
     /\ calls' = Append(calls,
          [assistantId |-> assistantId,
           workflow |-> getAgentWorkflow(userInput), scheduledAt |-> dateNow, revealed |-> 0,
           streamedContent |-> <<>>, accumulator |-> <<>>, pc |-> "streaming",
           history |-> conversationHistory(state.messages),
           result |-> <<>>, outcome |-> "pending",
           slot |-> Len(state.messages) + 2, arrived |-> <<>>, delivered |-> <<>>])
     /\ UNCHANGED <<isIngesting, imports, dispatchVars, assemblyVars>>

\* a chat form that passes on what was typed, as it was typed
ChatSubmitUnchecked ==
  \E input \in ChatInputs, elapsed \in 0..MaxMs :
    /\ ~state.isThinking
    /\ handleSendMessage(input, elapsed)

\* ChatInterface.handleSubmit
ChatSubmit ==
  \E input \in ChatInputs, elapsed \in 0..MaxMs :
    /\ trim(input) # <<>>
    /\ ~state.isThinking
    /\ handleSendMessage(trim(input), elapsed)

\* the quick-action buttons of the empty chat
QuickAction ==
  \E q \in {QuickAuditQuery, QuickRefactorQuery}, elapsed \in 0..MaxMs :
    /\ Len(state.messages) = 0
    /\ q = QuickRefactorQuery => state.currentFile # Null
    /\ handleSendMessage(q, elapsed)

\* App.triggerRefactor
TriggerRefactor ==
  \E elapsed \in 0..MaxMs :
    /\ state.currentFile # Null
    /\ ~state.isThinking
    /\ handleSendMessage(RefactorQuery(state.currentFile.path), elapsed)

\* App.handleGeneratorSubmit
GeneratorSubmit ==
  \E generatorInput \in GeneratorInputs, elapsed \in 0..MaxMs :
    /\ trim(generatorInput) # <<>>
    /\ handleSendMessage(GeneratorQuery(generatorInput), elapsed)

\* App.handleProjectOverview
ProjectOverview == \E elapsed \in 0..MaxMs : handleSendMessage(ProjectOverviewQuery, elapsed)

\* the for await loop takes one fragment from the stream
StreamChunk(s) ==
    LET c == calls[s]
        chunkText == FragmentAt(s, Len(c.arrived) + 1)
        streamedContent == appendChunk(c.streamedContent, chunkText)
    IN /\ c.pc = "streaming"
       /\ Len(c.arrived) < MaxFragments
       /\ IF chunkText # <<>>
          THEN /\ state' = chunkUpdate(state, c.assistantId, streamedContent)
               /\ calls' = [calls EXCEPT ![s] =
                    [c EXCEPT !.accumulator = accumulate(c.accumulator, chunkText),
                              !.streamedContent = streamedContent,
                              !.arrived = Append(c.arrived, chunkText),
                              !.delivered = Append(c.delivered, chunkText)]]
          ELSE /\ state' = state
               /\ calls' = [calls EXCEPT ![s] = [c EXCEPT !.arrived = Append(c.arrived, chunkText)]]
       /\ UNCHANGED <<isIngesting, now, imports, dispatchVars, assemblyVars>>

\* the stream ends: the gateway resolves with the accumulator and handleSendMessage completes
StreamEnd(s) ==
  LET c == calls[s]
  IN /\ c.pc = "streaming"
     /\ state' = completionUpdate(state)
     /\ calls' = [calls EXCEPT ![s] = 
          [c EXCEPT !.pc = "done", !.result = c.accumulator, !.outcome = "ended"]]
     /\ UNCHANGED <<isIngesting, now, imports, dispatchVars, assemblyVars>>

\* a failure whose error fragment takes the place of what was streamed before
StreamFailStartingOver(s) ==
    LET c == calls[s]
        caught == catchClause(ThrownBy(s))
        streamedContent == caught.chunks[1]
        shown == chunkUpdate(state, c.assistantId, streamedContent)
    IN /\ c.pc = "streaming"
       /\ state' = completionUpdate(shown)
       /\ calls' = [calls EXCEPT ![s] =
            [c EXCEPT !.pc = "done",
                      !.streamedContent = streamedContent,
                      !.delivered = c.delivered \o caught.chunks,
                      !.result = caught.result,
                      !.outcome = "failed"]]
       /\ UNCHANGED <<isIngesting, now, imports, dispatchVars, assemblyVars>>

\* the streaming call or the stream throws: the catch clause runs, and, unless the gateway
\* rejects, handleSendMessage completes in the same turn
StreamFail(s) ==
    LET c == calls[s]
        caught == catchClause(ThrownBy(s))
        streamedContent ==
          IF caught.chunks = <<>> THEN c.streamedContent
          ELSE appendChunk(c.streamedContent, caught.chunks[1])
        shown == IF caught.chunks = <<>> THEN state
                 ELSE chunkUpdate(state, c.assistantId, streamedContent)
    IN /\ c.pc = "streaming"
       /\ state' = IF caught.rejects THEN shown ELSE completionUpdate(shown)
       /\ calls' = [calls EXCEPT ![s] =
            [c EXCEPT !.pc = IF caught.rejects THEN "rejected" ELSE "done",
                      !.streamedContent = streamedContent,
                      !.delivered = c.delivered \o caught.chunks,
                      !.result = caught.result,
                      !.outcome = "failed"]]
       /\ UNCHANGED <<isIngesting, now, imports, dispatchVars, assemblyVars>>

\* the reveal timers of call s still to fire, and when the next one is due
timerPending(s) == calls[s].revealed < Len(calls[s].workflow)

timerDue(s) == calls[s].scheduledAt + (calls[s].revealed + 1) * RevealInterval

\* the callback of setTimeout, lines 81-86: timers run in the order of their due times,
\* and in the order they were set when these are equal
TimerFires(s) ==
  LET c == calls[s]
  IN /\ timerPending(s)
     /\ timerDue(s) <= now
     /\ \A r \in DOMAIN calls \ {s} :
          timerPending(r) => \/ timerDue(s) < timerDue(r)
                             \/ timerDue(s) = timerDue(r) /\ s < r
     /\ state' = revealUpdate(state, c.workflow[c.revealed + 1])
     /\ calls' = [calls EXCEPT ![s] = [c EXCEPT !.revealed = c.revealed + 1]]
     /\ UNCHANGED <<isIngesting, now, imports, dispatchVars, assemblyVars>>

\* one reveal interval passes
IntervalElapses ==
  /\ now \div RevealInterval < MaxIntervals
  /\ now' = now + RevealInterval
  /\ UNCHANGED <<state, isIngesting, calls, imports, dispatchVars, assemblyVars>>

\* a selection that deselects the file when it is the current one
fileSelectUpdateToggling(prev, file) ==
  [prev EXCEPT !.currentFile = IF prev.currentFile = file THEN Null ELSE file]

\* setState of line 197
fileSelectUpdate(prev, file) == [prev EXCEPT !.currentFile = file]

\* a click that selects whatever node was clicked
handleClickSelectingAny(prev, node) == fileSelectUpdate(prev, node)

\* FileItem.handleClick, Sidebar.tsx lines 12-18: a directory is opened or closed, which
\* is no part of the session; any other node is passed to handleFileSelect
handleClick(prev, node) ==
  IF node.type = "directory" THEN prev ELSE fileSelectUpdate(prev, node)

\* a click on a node of the sidebar
FileSelect ==
  \E node \in nodesOf(state.repoStructure) :
    /\ node.path \in ClickedPaths
    /\ state' = handleClick(state, node)
    /\ UNCHANGED <<isIngesting, now, calls, imports, dispatchVars, assemblyVars>>

\* the inputs GithubImportModal.handleSubmit lets through: not blank, and a GitHub URL
AcceptedUrls == {url \in UrlInputs : trim(url) # <<>> /\ validateGithubUrl(url)}

\* a modal that does not look at isIngesting
ImportSubmitUngated ==
  \E url \in UrlInputs :
    /\ url \in AcceptedUrls
    /\ Len(imports) < MaxImports
    /\ Len(calls) + Len(imports) < MaxOperations
    /\ isIngesting' = TRUE
    /\ imports' = Append(imports, [url |-> trim(url), pc |-> "analyzing", outcome |-> Null])
    /\ UNCHANGED <<state, now, calls, dispatchVars, assemblyVars>>

\* GithubImportModal.handleSubmit, and handleImportRepo up to its await
ImportSubmit ==
  \E url \in UrlInputs :
    /\ ~isIngesting
    /\ url \in AcceptedUrls
    /\ Len(imports) < MaxImports
    /\ Len(calls) + Len(imports) < MaxOperations
    /\ isIngesting' = TRUE
    /\ imports' = Append(imports, [url |-> trim(url), pc |-> "analyzing", outcome |-> Null])
    /\ UNCHANGED <<state, now, calls, dispatchVars, assemblyVars>>

\* analyzeGithubRepo settles, elapsed ms after the clock was last read: the rest of the try
\* block, the catch clause and the finally clause; outcome records how the call settled
ImportSettles(i) ==
  \E outcome \in AnalysisOutcomes, elapsed \in 0..MaxMs :
    LET url == imports[i].url
        tried == tryBlock(outcome, url)
        dateNow == now + elapsed
    IN /\ imports[i].pc = "analyzing"
       /\ ClockInRange(elapsed)
       /\ now' = dateNow
       /\ state' =
            IF tried.threw
            THEN importFailureUpdate(state, AssistantMessage(dateNow, ingestionFailed(url), dateNow, ATLAS))
            ELSE importSuccessUpdate(state, tried.node,
                                     AssistantMessage(dateNow, tried.summary, dateNow, ARCHITECT))
       /\ imports' = [imports EXCEPT ![i] =
            [url |-> url, pc |-> IF tried.threw THEN "failed" ELSE "imported",
             outcome |-> outcome]]
       /\ isIngesting' = finallyClause(tried)
       /\ UNCHANGED <<calls, dispatchVars, assemblyVars>>

Next ==
  \/ ChatSubmit
  \/ QuickAction
  \/ TriggerRefactor
  \/ GeneratorSubmit
  \/ ProjectOverview
  \/ \E s \in DOMAIN calls : StreamChunk(s)
  \/ \E s \in DOMAIN calls : StreamEnd(s)
  \/ \E s \in DOMAIN calls : StreamFail(s)
  \/ \E s \in DOMAIN calls : TimerFires(s)
  \/ IntervalElapses
  \/ FileSelect
  \/ ImportSubmit
  \/ \E i \in DOMAIN imports : ImportSettles(i)

Spec == Init /\ [][Next]_vars

\* every streaming call of the gateway eventually settles
LiveSpec == Spec /\ \A s \in 1..MaxSubmits : WF_vars(s \in DOMAIN calls /\ (StreamEnd(s) \/ StreamFail(s)))

\* every call of analyzeGithubRepo eventually settles
ImportLiveSpec == Spec /\ \A i \in 1..MaxImports : WF_vars(i \in DOMAIN imports /\ ImportSettles(i))

(***************************************************************************)
(* The dispatcher on its own: getAgentWorkflow applied to a query.         *)
(***************************************************************************)
\* the words the queries under test are made of: the triggers, triggers inside longer
\* words, upper-case spellings and words with no trigger
Vocabulary ==
  {workflowDefinitions[k].trigger : k \in DOMAIN workflowDefinitions}
    \cup { <<"e","x","c","h","a","n","g","e">>, <<"r","e","w","r","i","t","e">>, <<"E","x","p","l","a","i","n">>, <<"A","U","D","I","T">>, <<"h","e","l","l","o">>, <<"t","h","e"," ","c","o","d","e">> }

\* the words of ws separated by blanks
Queries ==
  UNION {{join(ws, <<" ">>) : ws \in [1..n -> Vocabulary]} : n \in 0..MaxWords}

DispatchInit ==
  /\ SessionInit
  /\ query \in Queries /\ dispatched = FALSE /\ workflow = <<>>
  /\ prompt = <<>> /\ assembled = FALSE

Dispatch ==
  /\ ~dispatched
  /\ workflow' = getAgentWorkflow(query)
  /\ dispatched' = TRUE
  /\ UNCHANGED <<query, sessionVars, assemblyVars>>

DispatchNext == Dispatch

DispatchSpec == DispatchInit /\ [][DispatchNext]_vars

(***************************************************************************)
(* App.tsx: the prompt handleSendMessage passes to the gateway, lines      *)
(* 103-119, as a function of what it reads: userInput, state.currentFile   *)
(* and state.repoStructure.                                                *)
(***************************************************************************)
indentOf(n) == [i \in 1..n |-> " "]

\* the escapes JSON.stringify writes inside a string
escapeChar(c) ==
  IF c = "\"" THEN <<"\\","\"">>
  ELSE IF c = "\\" THEN <<"\\","\\">>
  ELSE IF c = "\n" THEN <<"\\","n">>
  ELSE IF c = "\t" THEN <<"\\","t">>
  ELSE <<c>>

RECURSIVE escaped(_)
escaped(s) == IF s = <<>> THEN <<>> ELSE escapeChar(Head(s)) \o escaped(Tail(s))

\* a string as JSON.stringify writes it
quote(s) == <<"\"">> \o escaped(s) \o <<"\"">>

\* the type of a node as text
typeText(type) == IF type = "file" THEN <<"f","i","l","e">> ELSE <<"d","i","r","e","c","t","o","r","y">>

replacerKeepsAll(k, v) == [defined |-> TRUE, value |-> v]

\* the replacer (k, v) => k === "content" ? undefined : v
replacer(k, v) ==
  IF k = "content" THEN [defined |-> FALSE] ELSE [defined |-> TRUE, value |-> v]

\* one property of an object, or nothing when its value is undefined
property(k, keyText, valueText, indent) ==
  IF replacer(k, valueText).defined
  THEN << indentOf(indent) \o quote(keyText) \o <<":"," ">> \o replacer(k, valueText).value >>
  ELSE <<>>

RECURSIVE stringifyNode(_, _)
RECURSIVE stringifyNodes(_, _)
\* JSON.stringify(node, replacer, 2) of a FileNode whose brace is indented by indent:
\* the properties in the order they were set, undefined ones left out
stringifyNode(node, indent) ==
  LET properties ==
        (IF has(node, "name") THEN property("name", <<"n","a","m","e">>, quote(node.name), indent + 2) ELSE <<>>)
        \o (IF has(node, "path") THEN property("path", <<"p","a","t","h">>, quote(node.path), indent + 2) ELSE <<>>)
        \o (IF has(node, "type") THEN property("type", <<"t","y","p","e">>, quote(typeText(node.type)), indent + 2) ELSE <<>>)
        \o (IF has(node, "content")
            THEN property("content", <<"c","o","n","t","e","n","t">>, quote(node.content), indent + 2) ELSE <<>>)
        \o (IF has(node, "children")
            THEN property("children", <<"c","h","i","l","d","r","e","n">>, stringifyNodes(node.children, indent + 2), indent + 2)
            ELSE <<>>)
  IN IF properties = <<>> THEN <<"{","}">>
     ELSE <<"{","\n">> \o join(properties, <<",","\n">>) \o <<"\n">> \o indentOf(indent) \o <<"}">>

\* JSON.stringify of an array of FileNodes
stringifyNodes(nodes, indent) ==
  IF nodes = <<>> THEN <<"[","]">>
  ELSE <<"[","\n">>
         \o join([i \in 1..Len(nodes) |-> indentOf(indent + 2) \o stringifyNode(nodes[i], indent + 2)],
                 <<",","\n">>)
         \o <<"\n">> \o indentOf(indent) \o <<"]">>

contextHeaderUnconditional(currentFile) ==
  <<"A","c","t","i","v","e"," ","F","i","l","e"," ","C","o","n","t","e","x","t",":"," ">> \o interpolate(currentFile, "path")
    \o <<"\n","C","o","n","t","e","n","t",":","\n">> \o interpolate(currentFile, "content") \o <<"\n","\n">>

\* lines 103-105
contextHeader(currentFile) ==
  IF currentFile # Null
  THEN <<"A","c","t","i","v","e"," ","F","i","l","e"," ","C","o","n","t","e","x","t",":"," ">> \o interpolate(currentFile, "path")
         \o <<"\n","C","o","n","t","e","n","t",":","\n">> \o interpolate(currentFile, "content") \o <<"\n","\n">>
  ELSE <<>>

\* a pattern without the trigger audit
matchesStructureWithoutAudit(s) ==
  \/ includes(s, <<"a","r","c","h","i","t","e","c","t","u","r","e">>)
  \/ includes(s, <<"s","t","r","u","c","t","u","r","e">>)
  \/ includes(s, <<"o","v","e","r","v","i","e","w">>)

\* .match(/architecture|structure|overview|audit/)
matchesStructure(s) ==
  \/ includes(s, <<"a","r","c","h","i","t","e","c","t","u","r","e">>)
  \/ includes(s, <<"s","t","r","u","c","t","u","r","e">>)
  \/ includes(s, <<"o","v","e","r","v","i","e","w">>)
  \/ includes(s, <<"a","u","d","i","t">>)

\* lines 108-110
repoContext(userInput, repoStructure) ==
  IF matchesStructure(toLowerCase(userInput))
  THEN <<"F","u","l","l"," ","P","r","o","j","e","c","t"," ","S","t","r","u","c","t","u","r","e",":","\n">> \o stringifyNodes(repoStructure, 0) \o <<"\n","\n">>
  ELSE <<>>

assemblePromptQueryFirst(userInput, currentFile, repoStructure) ==
  <<"Q","u","e","r","y",":"," ">> \o userInput \o repoContext(userInput, repoStructure) \o contextHeader(currentFile)

\* the first argument of generateAtlasResponseStream, line 119
assemblePrompt(userInput, currentFile, repoStructure) ==
  repoContext(userInput, repoStructure) \o contextHeader(currentFile) \o <<"Q","u","e","r","y",":"," ">> \o userInput

\* the queries the entry points send, and the words of the dispatcher's vocabulary
PromptQueries ==
  {trim(input) : input \in {i \in ChatInputs : trim(i) # <<>>}}
    \cup {GeneratorQuery(g) : g \in {i \in GeneratorInputs : trim(i) # <<>>}}
    \cup {QuickAuditQuery, QuickRefactorQuery, ProjectOverviewQuery, RefactorQuery(<<"R","E","A","D","M","E",".","m","d">>)}
    \cup Vocabulary

\* the session before and after a successful import
PromptSessions ==
  LET initial == [messages |-> <<>>, isThinking |-> FALSE, activeAgents |-> <<>>,
                  currentFile |-> Null, repoStructure |-> MOCK_REPO]
  IN {initial} \cup
     {importSuccessUpdate(initial, tryBlock(outcome, trim(url)).node,
                          AssistantMessage(0, tryBlock(outcome, trim(url)).summary, 0, ARCHITECT)) :
        outcome \in {o \in AnalysisOutcomes : ~tryBlock(o, <<>>).threw},
        url \in {u \in UrlInputs : validateGithubUrl(u)}}

PromptInit ==
  /\ \E session \in PromptSessions :
       \E file \in {Null} \cup filesOf(session.repoStructure) :
         state = [session EXCEPT !.currentFile = file]
  /\ isIngesting = FALSE
  /\ now = 0
  /\ calls = <<>>
  /\ imports = <<>>
  /\ query \in PromptQueries
  /\ dispatched = FALSE
  /\ workflow = <<>>
  /\ prompt = <<>>
  /\ assembled = FALSE

Assemble ==
  /\ ~assembled
  /\ prompt' = assemblePrompt(query, state.currentFile, state.repoStructure)
  /\ assembled' = TRUE
  /\ UNCHANGED <<sessionVars, dispatchVars>>

PromptNext == Assemble

PromptSpec == PromptInit /\ [][PromptNext]_vars

(***************************************************************************)
(* Properties of the dispatcher.                                           *)
(***************************************************************************)
\* the indices of the triggers the lower-cased query contains
matching(q) == {k \in DOMAIN workflowDefinitions : includes(toLowerCase(q), workflowDefinitions[k].trigger)}

\* the buckets of the code: the triggers that share one sequence of agents
bucketsOf(ks) == {workflowDefinitions[k].agents : k \in ks}

earliest(ks) == CHOOSE k \in ks : \A j \in ks : k <= j

\* C8: a query with triggers of two or more buckets gets exactly the sequence of the
\* trigger declared earliest among those it contains, wherever the triggers stand in the
\* text, and never a merge of several sequences.
EarliestDeclaredTriggerWins ==
  (dispatched /\ Cardinality(bucketsOf(matching(query))) >= 2)
    => workflow = workflowDefinitions[earliest(matching(query))].agents

\* a query where the trigger declared later stands first in the text
EarliestDeclaredTriggerWinsWitness ==
  /\ dispatched
  /\ query = <<"e","x","p","l","a","i","n"," ","b","u","i","l","d">>
  /\ workflow = <<ARCHITECT, GENERATOR, SECURITY>>

\* the buckets as the five groups of triggers, audit among the architecture triggers
FiveBuckets ==
  << [triggers |-> {<<"g","e","n","e","r","a","t","e">>, <<"c","r","e","a","t","e">>, <<"w","r","i","t","e">>, <<"b","u","i","l","d">>, <<"i","m","p","l","e","m","e","n","t">>, <<"s","e","t","u","p">>},
      agents |-> <<ARCHITECT, GENERATOR, SECURITY>>],
     [triggers |-> {<<"r","e","f","a","c","t","o","r">>, <<"o","p","t","i","m","i","z","e">>, <<"i","m","p","r","o","v","e">>, <<"r","e","a","d","a","b","i","l","i","t","y">>},
      agents |-> <<REFACTORER, ARCHITECT>>],
     [triggers |-> {<<"i","m","p","a","c","t">>, <<"c","h","a","n","g","e">>},
      agents |-> <<CHANGE_IMPACT, SECURITY, ARCHITECT>>],
     [triggers |-> {<<"a","r","c","h","i","t","e","c","t","u","r","e">>, <<"s","t","r","u","c","t","u","r","e">>, <<"o","v","e","r","v","i","e","w">>, <<"a","u","d","i","t">>},
      agents |-> <<EXPLORER, ARCHITECT, EXPLAINER>>],
     [triggers |-> {<<"e","x","p","l","a","i","n">>},
      agents |-> <<EXPLAINER>>] >>

\* the same with audit as a bucket of its own
SixBuckets ==
  << [triggers |-> {<<"g","e","n","e","r","a","t","e">>, <<"c","r","e","a","t","e">>, <<"w","r","i","t","e">>, <<"b","u","i","l","d">>, <<"i","m","p","l","e","m","e","n","t">>, <<"s","e","t","u","p">>},
      agents |-> <<ARCHITECT, GENERATOR, SECURITY>>],
     [triggers |-> {<<"r","e","f","a","c","t","o","r">>, <<"o","p","t","i","m","i","z","e">>, <<"i","m","p","r","o","v","e">>, <<"r","e","a","d","a","b","i","l","i","t","y">>},
      agents |-> <<REFACTORER, ARCHITECT>>],
     [triggers |-> {<<"i","m","p","a","c","t">>, <<"c","h","a","n","g","e">>},
      agents |-> <<CHANGE_IMPACT, SECURITY, ARCHITECT>>],
     [triggers |-> {<<"a","r","c","h","i","t","e","c","t","u","r","e">>, <<"s","t","r","u","c","t","u","r","e">>, <<"o","v","e","r","v","i","e","w">>},
      agents |-> <<EXPLORER, ARCHITECT, EXPLAINER>>],
     [triggers |-> {<<"a","u","d","i","t">>},
      agents |-> <<EXPLORER, ARCHITECT, SECURITY, EXPLAINER>>],
     [triggers |-> {<<"e","x","p","l","a","i","n">>},
      agents |-> <<EXPLAINER>>] >>

\* the buckets of which the query, compared case-insensitively, contains a trigger
bucketsHit(buckets, q) ==
  {b \in DOMAIN buckets : \E t \in buckets[b].triggers : includes(toLowerCase(q), t)}

singleBucketGetsItsSequence(buckets) ==
  (dispatched /\ Cardinality(bucketsHit(buckets, query)) = 1)
    => \A b \in bucketsHit(buckets, query) : workflow = buckets[b].agents

\* C9 as stated: a query with triggers of exactly one of the five buckets gets that
\* bucket's sequence, audit giving [Explorer, Architect, Explainer].
SingleBucketOfFive == singleBucketGetsItsSequence(FiveBuckets)

\* C9, amended: a query with triggers of exactly one bucket gets that bucket's sequence,
\* where audit is a bucket of its own and gives [Explorer, Architect, Security, Explainer].
SingleBucketOfSix == singleBucketGetsItsSequence(SixBuckets)

\* an upper-case audit query
SingleBucketOfSixWitness ==
  /\ dispatched
  /\ query = <<"A","U","D","I","T">>
  /\ workflow = <<EXPLORER, ARCHITECT, SECURITY, EXPLAINER>>

\* C10: a query that contains no trigger after lower-casing, the empty string included,
\* gets exactly [Explorer].
NoTriggerGetsExplorer ==
  (dispatched /\ matching(query) = {}) => workflow = <<EXPLORER>>

\* the empty query
NoTriggerGetsExplorerWitness ==
  /\ dispatched
  /\ query = <<>>
  /\ workflow = <<EXPLORER>>

\* C11: the sequence getAgentWorkflow returns is never empty, names no agent twice and
\* names only agents of AgentType other than the orchestrator.
WorkflowIsWellFormed ==
  dispatched =>
    /\ workflow # <<>>
    /\ \A i, j \in DOMAIN workflow : i # j => workflow[i] # workflow[j]
    /\ \A i \in DOMAIN workflow : workflow[i] \in AgentType \ {ATLAS}

\* a query with triggers of two buckets that share an agent
WorkflowIsWellFormedWitness ==
  /\ dispatched
  /\ query = <<"a","u","d","i","t"," ","c","h","a","n","g","e">>
  /\ workflow = <<CHANGE_IMPACT, SECURITY, ARCHITECT>>

\* the query in capital letters
UpperOf == [c \in {LowerCase[k] : k \in DOMAIN LowerCase} |->
              UpperCase[CHOOSE k \in DOMAIN LowerCase : LowerCase[k] = c]]

toUpperCase(s) == [i \in 1..Len(s) |-> IF s[i] \in DOMAIN UpperOf THEN UpperOf[s[i]] ELSE s[i]]

(***************************************************************************)
(* Properties of the session.                                              *)
(***************************************************************************)
inFlight == {s \in DOMAIN calls : calls[s].pc = "streaming"}

RECURSIVE concatenation(_)
concatenation(chunks) ==
  IF chunks = <<>> THEN <<>> ELSE Head(chunks) \o concatenation(Tail(chunks))

\* the placeholder of call s in the message log
placeholderOf(st, s) == st.messages[calls[s].slot]

\* C1: at most one submit is in flight: in every reachable state at most one placeholder is
\* still receiving chunks, because a submit made while isThinking is true is ignored.
AtMostOneSubmitInFlight == Cardinality(inFlight) <= 1

\* C2: once the session is idle (isThinking false) activeAgents is empty and stays empty
\* until the next submit: a reveal timer firing after the completion changes nothing.
IdleShowsNoActiveAgents == ~state.isThinking => state.activeAgents = <<>>

\* C3: the session never stays stuck generating: whenever isThinking is true, a state with
\* isThinking false follows, however the stream ends, and there the chat form accepts a
\* further submit (as long as the run has submits left).
NeverStuckGenerating ==
  state.isThinking ~>
    (/\ ~state.isThinking
     /\ (Len(calls) < MaxSubmits /\ Len(calls) + Len(imports) < MaxOperations)
          => ENABLED ChatSubmit)

\* a first submit failed after its two chunks, the session went idle and the chat form
\* then accepted a second submit
NeverStuckGeneratingWitness ==
  /\ Len(calls) = 2
  /\ calls[1].outcome = "failed" /\ Len(calls[1].delivered) = 3
  /\ state.messages[calls[2].slot - 1].content = <<"E","x","p","l","a","i","n"," ","a","u","t","h">>
  /\ calls[2].pc = "done"
  /\ ~state.isThinking

\* C4: isThinking is true in every state from a submit until the completion of the gateway
\* call of that same submit.
ThinkingUntilOwnCompletion == \A s \in inFlight : state.isThinking

\* C5: when the k-th chunk of a submit is delivered, the content of its placeholder
\* becomes exactly c1 + ... + ck, and the placeholder always keeps its id, role, agent,
\* timestamp and position in the log.
PlaceholderAccumulatesChunks ==
  [][\A s \in DOMAIN calls :
       /\ placeholderOf(state', s).id = calls[s].assistantId
       /\ placeholderOf(state', s).role = "assistant"
       /\ placeholderOf(state', s).agent = ATLAS
       /\ placeholderOf(state', s).timestamp = calls[s].scheduledAt
       /\ calls'[s].delivered # calls[s].delivered
            => placeholderOf(state', s).content = concatenation(calls'[s].delivered)]_vars

\* both chunks of a stream were delivered and the placeholder reads "Hello, world"
PlaceholderAccumulatesChunksWitness ==
  \E s \in DOMAIN calls :
    /\ calls[s].delivered = << <<"H","e","l","l","o",","," ">>, <<"w","o","r","l","d">> >>
    /\ placeholderOf(state, s).content = <<"H","e","l","l","o",","," ","w","o","r","l","d">>
    /\ placeholderOf(state, s).id = calls[s].assistantId

\* C6: no two messages of the log share an id.
MessageIdsAreUnique ==
  \A i, j \in DOMAIN state.messages : i # j => state.messages[i].id # state.messages[j].id

\* C7: when the streaming call fails, generateAtlasResponseStream does not reject: it
\* delivers exactly one fragment with the marker "Agent Error" through onChunk and
\* resolves with it; the placeholder then contains the marker and the caller completes.
FailureBecomesOneErrorFragment ==
  [][\A s \in DOMAIN calls :
       (calls[s].outcome = "pending" /\ calls'[s].outcome = "failed")
         => /\ calls'[s].pc = "done"
            /\ calls'[s].delivered = Append(calls[s].delivered, calls'[s].result)
            /\ includes(calls'[s].result, AgentErrorMarker)
            /\ includes(placeholderOf(state', s).content, AgentErrorMarker)
            /\ ~state'.isThinking
            /\ state'.activeAgents = <<>>]_vars

\* a stream failed after a chunk: the placeholder holds the chunk and the error fragment
FailureBecomesOneErrorFragmentWitness ==
  \E s \in DOMAIN calls :
    /\ calls[s].outcome = "failed" /\ calls[s].pc = "done"
    /\ Len(calls[s].delivered) = 2
    /\ placeholderOf(state, s).content = calls[s].delivered[1] \o calls[s].result
    /\ includes(calls[s].result, AgentErrorMarker)
    /\ ~state.isThinking

\* C12: getAgentWorkflow depends on the letters of the query only, not on their case and
\* not on the session: in whatever state a submit is made, the workflow it obtains is the
\* one of the query in capitals and of the query in small letters, and obtaining it leaves
\* the session as the two updates of the submit alone make it.
WorkflowIgnoresCaseAndSession ==
  [][Len(calls') > Len(calls) =>
       LET s == Len(calls')
           userInput == state'.messages[calls'[s].slot - 1].content
       IN /\ calls'[s].workflow = getAgentWorkflow(toUpperCase(userInput))
          /\ calls'[s].workflow = getAgentWorkflow(toLowerCase(userInput))
          /\ state'.activeAgents = <<ATLAS>>
          /\ state'.currentFile = state.currentFile
          /\ state'.repoStructure = state.repoStructure
          /\ SubSeq(state'.messages, 1, Len(state.messages)) = state.messages
          /\ Len(state'.messages) = Len(state.messages) + 2]_vars

\* the chat query, which has a capital, was submitted after an import and a file selection
WorkflowIgnoresCaseAndSessionWitness ==
  /\ Len(calls) = 1 /\ Len(imports) = 1
  /\ imports[1].pc = "imported"
  /\ state.currentFile # Null
  /\ calls[1].slot = 3
  /\ state.messages[2].content = <<"E","x","p","l","a","i","n"," ","a","u","t","h">>
  /\ calls[1].workflow = <<EXPLAINER>>

(***************************************************************************)
(* Properties of the prompt.                                               *)
(***************************************************************************)
endsWith(s, t) == Len(t) <= Len(s) /\ SubSeq(s, Len(s) - Len(t) + 1, Len(s)) = t

\* the query, compared case-insensitively, has one of the four structure words
isStructural(q) ==
  \E w \in {<<"a","r","c","h","i","t","e","c","t","u","r","e">>, <<"s","t","r","u","c","t","u","r","e">>, <<"o","v","e","r","v","i","e","w">>, <<"a","u","d","i","t">>} :
    includes(toLowerCase(q), w)

queryBlock(q) == <<"Q","u","e","r","y",":"," ">> \o q

\* the active-file block of a file: its path and its content
activeFileBlock(file) ==
  <<"A","c","t","i","v","e"," ","F","i","l","e"," ","C","o","n","t","e","x","t",":"," ">> \o file.path \o <<"\n","C","o","n","t","e","n","t",":","\n">>
    \o (IF has(file, "content") THEN file.content ELSE <<"u","n","d","e","f","i","n","e","d">>) \o <<"\n","\n">>

structureHeading == <<"F","u","l","l"," ","P","r","o","j","e","c","t"," ","S","t","r","u","c","t","u","r","e",":","\n">>

RECURSIVE allNodesOf(_)
allNodesOf(nodes) ==
  IF nodes = <<>> THEN {}
  ELSE {Head(nodes)}
         \cup (IF has(Head(nodes), "children") THEN allNodesOf(Head(nodes).children) ELSE {})
         \cup allNodesOf(Tail(nodes))

\* C13: with no file selected and a query without architecture, structure, overview or
\* audit, the prompt is exactly "Query: " followed by the query.
PlainPromptIsQueryOnly ==
  (assembled /\ state.currentFile = Null /\ ~isStructural(query))
    => prompt = queryBlock(query)

\* the chat query with no file selected
PlainPromptIsQueryOnlyWitness ==
  /\ assembled
  /\ state.currentFile = Null
  /\ query = <<"E","x","p","l","a","i","n"," ","a","u","t","h">>
  /\ prompt = <<"Q","u","e","r","y",":"," ","E","x","p","l","a","i","n"," ","a","u","t","h">>

\* C14: the prompt has the active-file block, with the path and the full content of the
\* file, exactly when a file is selected, and the block stands right before the query block.
ActiveFileBlockIffFileSelected ==
  assembled =>
    IF state.currentFile # Null
    THEN endsWith(prompt, activeFileBlock(state.currentFile) \o queryBlock(query))
    ELSE /\ ~includes(prompt, <<"A","c","t","i","v","e"," ","F","i","l","e"," ","C","o","n","t","e","x","t",":"," ">>)
         /\ endsWith(prompt, queryBlock(query))

\* README.md is selected and the query is a structural one
ActiveFileBlockIffFileSelectedWitness ==
  /\ assembled
  /\ state.currentFile # Null
  /\ state.currentFile.path = <<"R","E","A","D","M","E",".","m","d">>
  /\ query = <<"o","v","e","r","v","i","e","w">>
  /\ endsWith(prompt, <<"\n","\n","A","c","t","i","v","e"," ","F","i","l","e"," ","C","o","n","t","e","x","t",":"," ","R","E","A","D","M","E",".","m","d","\n","C","o","n","t","e","n","t",":","\n">>
                        \o <<"[text of README.md]">> \o <<"\n","\n","Q","u","e","r","y",":"," ","o","v","e","r","v","i","e","w">>)

\* C15: the prompt has the repository-structure block exactly when the lower-cased query
\* contains architecture, structure, overview or audit; the block is the first of the
\* prompt, before the active-file block and the query block, and serializes every node of
\* the current forest without any content field.
StructureBlockIffStructuralQuery ==
  assembled =>
    LET rest == (IF state.currentFile # Null THEN activeFileBlock(state.currentFile) ELSE <<>>)
                  \o queryBlock(query)
        json == SubSeq(prompt, Len(structureHeading) + 1, Len(prompt) - Len(rest) - 2)
    IN IF isStructural(query)
       THEN /\ startsWith(prompt, structureHeading)
            /\ endsWith(prompt, <<"\n","\n">> \o rest)
            /\ json[1] = "[" /\ json[Len(json)] = "]"
            /\ ~includes(json, <<"\"","c","o","n","t","e","n","t","\"">>)
            /\ \A n \in allNodesOf(state.repoStructure) :
                 /\ includes(json, <<"\"","n","a","m","e","\"",":"," ","\"">> \o n.name \o <<"\"">>)
                 /\ includes(json, <<"\"","p","a","t","h","\"",":"," ","\"">> \o n.path \o <<"\"">>)
                 /\ has(n, "content") => ~includes(json, n.content)
       ELSE prompt = rest

\* a structural query in capitals, after an import, with an imported file selected
StructureBlockIffStructuralQueryWitness ==
  /\ assembled
  /\ query = <<"A","U","D","I","T">>
  /\ Len(state.repoStructure) = Len(MOCK_REPO) + 1
  /\ state.currentFile # Null
  /\ state.currentFile.path = <<"s","r","c","/","i","n","d","e","x",".","t","s">>
  /\ startsWith(prompt, structureHeading \o <<"[","\n"," "," ","{","\n"," "," "," "," ","\"","n","a","m","e","\"",":"," ","\"","i","n","f","r","a","\"",",">>)
  /\ includes(prompt, <<"\"","p","a","t","h","\"",":"," ","\"","s","r","c","/","i","n","d","e","x",".","t","s","\"">>)

(***************************************************************************)
(* More properties of the session.                                         *)
(***************************************************************************)
RECURSIVE turnsWithContent(_)
\* role and content of the messages that have content, in log order
turnsWithContent(messages) ==
  IF messages = <<>> THEN <<>>
  ELSE (IF Head(messages).content = <<>> THEN <<>>
        ELSE << [role |-> Head(messages).role, content |-> Head(messages).content] >>)
         \o turnsWithContent(Tail(messages))

\* C16: the history a submit passes to the gateway is exactly the messages that were in
\* the log before the submit and have content, in log order with their roles; it holds
\* neither the new placeholder nor any other message without content.
HistoryIsPriorMessagesWithContent ==
  [][Len(calls') > Len(calls) =>
       LET history == calls'[Len(calls')].history
       IN /\ history = turnsWithContent(state.messages)
          /\ \A i \in DOMAIN history : history[i].content # <<>>]_vars

\* a second submit whose history has the first exchange but not a placeholder that was
\* still empty
HistoryIsPriorMessagesWithContentWitness ==
  /\ Len(calls) = 2
  /\ calls[2].slot = 4
  /\ Len(calls[2].history) = 1
  /\ calls[2].history[1].role = "user"

(***************************************************************************)
(* Properties of the import flow.                                          *)
(***************************************************************************)
analyzing == {i \in DOMAIN imports : imports[i].pc = "analyzing"}

\* import i settles in this step, with the result pc
settlesAs(i, pc) == imports[i].pc = "analyzing" /\ imports'[i].pc = pc

\* C17: a successful import appends exactly one root directory at the end of the forest,
\* with as many children as the returned structure has entries, and exactly one assistant
\* message tagged Architect, also when a root with the same path is already there.
SuccessfulImportAppendsOneRoot ==
  [][\A i \in DOMAIN imports :
       settlesAs(i, "imported") =>
         LET forest == state'.repoStructure
             root == forest[Len(forest)]
             message == state'.messages[Len(state'.messages)]
         IN /\ Len(forest) = Len(state.repoStructure) + 1
            /\ SubSeq(forest, 1, Len(state.repoStructure)) = state.repoStructure
            /\ root.type = "directory"
            /\ root.path = imports[i].url
            /\ Len(root.children) = Len(imports'[i].outcome.data.structure)
            /\ Len(state'.messages) = Len(state.messages) + 1
            /\ SubSeq(state'.messages, 1, Len(state.messages)) = state.messages
            /\ message.role = "assistant"
            /\ message.agent = ARCHITECT]_vars

\* two imports of the same URL left two roots with the same path
SuccessfulImportAppendsOneRootWitness ==
  /\ Len(imports) = 2
  /\ imports[1].pc = "imported" /\ imports[2].pc = "imported"
  /\ imports[1].url = imports[2].url
  /\ Len(state.repoStructure) = Len(MOCK_REPO) + 2
  /\ state.repoStructure[Len(MOCK_REPO) + 1].path = state.repoStructure[Len(MOCK_REPO) + 2].path
  /\ Len(state.repoStructure[Len(MOCK_REPO) + 2].children) = 2

\* C18: when analyzeGithubRepo rejects, the forest stays as it is, exactly one assistant
\* message is appended, the failure message, which is not an architect summary, and
\* isIngesting is cleared.
RejectedImportAppendsFailureMessage ==
  [][\A i \in DOMAIN imports :
       (settlesAs(i, "failed") /\ imports'[i].outcome.rejects) =>
         LET message == state'.messages[Len(state'.messages)]
         IN /\ state'.repoStructure = state.repoStructure
            /\ Len(state'.messages) = Len(state.messages) + 1
            /\ SubSeq(state'.messages, 1, Len(state.messages)) = state.messages
            /\ message.role = "assistant"
            /\ message.agent # ARCHITECT
            /\ includes(message.content, <<"I","n","g","e","s","t","i","o","n"," ","F","a","i","l","e","d">>)
            /\ ~includes(message.content, <<"R","e","p","o","s","i","t","o","r","y"," ","I","n","g","e","s","t","e","d">>)
            /\ ~isIngesting']_vars

\* the analysis was rejected and the log ends with the failure message
RejectedImportAppendsFailureMessageWitness ==
  /\ Len(imports) = 1
  /\ imports[1].pc = "failed"
  /\ imports[1].outcome.rejects
  /\ Len(state.messages) = 1
  /\ includes(state.messages[1].content, <<"I","n","g","e","s","t","i","o","n"," ","F","a","i","l","e","d">>)
  /\ state.repoStructure = MOCK_REPO
  /\ ~isIngesting

\* C19: at most one import is in flight: while isIngesting is true the modal starts no
\* second call of analyzeGithubRepo.
AtMostOneImportInFlight ==
  /\ Cardinality(analyzing) <= 1
  /\ isIngesting <=> analyzing # {}

\* a second import runs after the first has settled
AtMostOneImportInFlightWitness ==
  /\ Len(imports) = 2
  /\ imports[1].pc # "analyzing"
  /\ imports[2].pc = "analyzing"
  /\ isIngesting

\* C20: every import that was started ends with isIngesting false, on success and on
\* failure, and a new import can then be started (as long as the run has imports left).
ImportNeverStaysPending ==
  isIngesting ~>
    (/\ ~isIngesting
     /\ (Len(imports) < MaxImports /\ Len(calls) + Len(imports) < MaxOperations)
          => ENABLED ImportSubmit)

\* an import failed, the flag was cleared and a second import was started and succeeded
ImportNeverStaysPendingWitness ==
  /\ Len(imports) = 2
  /\ imports[1].pc = "failed"
  /\ imports[2].pc = "imported"
  /\ ~isIngesting

(***************************************************************************)
(* Properties of imports with malformed payloads, of file selection, of    *)
(* the forest and of the message log.                                      *)
(***************************************************************************)
\* the text after the last "/" of url
afterLastSlash(url) ==
  LET k == CHOOSE k \in 0..Len(url) :
             (k = 0 \/ url[k] = "/") /\ \A j \in (k + 1)..Len(url) : url[j] # "/"
  IN SubSeq(url, k + 1, Len(url))

\* C21: a payload that resolves but is malformed is handled: without repoName the root is
\* named after the last segment of the URL, an entry without children becomes a node
\* without children, and without structure or stack the import ends with the failure
\* message, the forest unchanged and isIngesting cleared.
MalformedPayloadIsHandled ==
  [][\A i \in DOMAIN imports :
       (imports[i].pc = "analyzing" /\ imports'[i].pc # "analyzing"
          /\ ~imports'[i].outcome.rejects) =>
         LET data == imports'[i].outcome.data
             forest == state'.repoStructure
             root == forest[Len(forest)]
             message == state'.messages[Len(state'.messages)]
         IN /\ ~isIngesting'
            /\ Len(state'.messages) = Len(state.messages) + 1
            /\ IF has(data, "structure") /\ has(data, "stack")
               THEN /\ imports'[i].pc = "imported"
                    /\ Len(forest) = Len(state.repoStructure) + 1
                    /\ root.name = IF has(data, "repoName") THEN data.repoName
                                   ELSE afterLastSlash(imports[i].url)
                    /\ \A k \in DOMAIN data.structure :
                         ~has(data.structure[k], "children") => ~has(root.children[k], "children")
               ELSE /\ imports'[i].pc = "failed"
                    /\ forest = state.repoStructure
                    /\ includes(message.content, <<"I","n","g","e","s","t","i","o","n"," ","F","a","i","l","e","d">>)]_vars

\* a payload without structure ended in the failure message, and a payload without
\* repoName gave a root named after the URL's last segment, with a childless second entry
MalformedPayloadIsHandledWitness ==
  /\ Len(imports) = 2
  /\ imports[1].pc = "failed" /\ ~imports[1].outcome.rejects
  /\ ~has(imports[1].outcome.data, "structure")
  /\ imports[2].pc = "imported" /\ ~has(imports[2].outcome.data, "repoName")
  /\ Len(state.repoStructure) = Len(MOCK_REPO) + 1
  /\ state.repoStructure[Len(MOCK_REPO) + 1].name = <<"a","t","l","a","s">>
  /\ ~has(state.repoStructure[Len(MOCK_REPO) + 1].children[2], "children")
  /\ includes(state.messages[1].content, <<"I","n","g","e","s","t","i","o","n"," ","F","a","i","l","e","d">>)
  /\ ~isIngesting

\* C22: selecting a file is idempotent and framed: a selection changes currentFile and
\* nothing else of the session, and selecting the file that was just selected gives the
\* same state again.
FileSelectIsIdempotentAndFramed ==
  [][/\ state'.currentFile # state.currentFile =>
          /\ state' = [state EXCEPT !.currentFile = state'.currentFile]
          /\ fileSelectUpdate(state', state'.currentFile) = state'
          /\ UNCHANGED <<isIngesting, now, calls, imports>>
     /\ \A file \in filesOf(state'.repoStructure) :
          LET once == fileSelectUpdate(state', file)
          IN /\ fileSelectUpdate(once, file) = once
             /\ once = [state' EXCEPT !.currentFile = file]]_vars

\* a file was selected while a submit was streaming: the log, isThinking and the active
\* agents are those of the submit
FileSelectIsIdempotentAndFramedWitness ==
  /\ state.currentFile # Null
  /\ state.currentFile.path = <<"R","E","A","D","M","E",".","m","d">>
  /\ state.isThinking
  /\ Len(state.messages) = 2
  /\ Len(state.activeAgents) = 2
  /\ state.repoStructure = MOCK_REPO

\* C23: the forest is append-only: the seed roots stay its prefix, no root is removed,
\* reordered or modified, and the forest changes only when an import succeeds, by one
\* root added at the end; every other step leaves it as it is.
ForestIsAppendOnly ==
  [][/\ SubSeq(state'.repoStructure, 1, Len(MOCK_REPO)) = MOCK_REPO
     /\ Len(state'.repoStructure) >= Len(state.repoStructure)
     /\ SubSeq(state'.repoStructure, 1, Len(state.repoStructure)) = state.repoStructure
     /\ state'.repoStructure # state.repoStructure =>
          /\ Len(state'.repoStructure) = Len(state.repoStructure) + 1
          /\ \E i \in DOMAIN imports : settlesAs(i, "imported")]_vars

\* an import succeeded and a later one failed: the forest is the seed and the one new root
ForestIsAppendOnlyWitness ==
  /\ Len(imports) = 2
  /\ imports[1].pc = "imported"
  /\ imports[2].pc = "failed"
  /\ Len(state.repoStructure) = Len(MOCK_REPO) + 1
  /\ SubSeq(state.repoStructure, 1, Len(MOCK_REPO)) = MOCK_REPO
  /\ state.repoStructure[Len(MOCK_REPO) + 1].path = imports[1].url

\* the fragments among chunks that are not empty, in order
nonEmptyOf(chunks) == SelectSeq(chunks, LAMBDA chunk : chunk # <<>>)

\* C24: on a stream that ends normally generateAtlasResponseStream passes each non-empty
\* fragment to onChunk once, in arrival order, and resolves with the concatenation of
\* exactly the fragments it passed.
StreamResolvesWithWhatItDelivered ==
  \A s \in DOMAIN calls :
    /\ calls[s].outcome \in {"pending", "ended"} =>
         calls[s].delivered = nonEmptyOf(calls[s].arrived)
    /\ calls[s].outcome = "ended" =>
         calls[s].result = concatenation(calls[s].delivered)

\* a stream whose first fragment was empty ended: one fragment was passed on and it is
\* the result; another stream passed on two fragments and resolved with both
StreamResolvesWithWhatItDeliveredWitness ==
  /\ Len(calls) = 2
  /\ calls[1].outcome = "ended"
  /\ Len(calls[1].delivered) = 2
  /\ calls[1].result = calls[1].delivered[1] \o calls[1].delivered[2]
  /\ calls[2].outcome = "ended"
  /\ Len(calls[2].arrived) = 2 /\ calls[2].arrived[1] = <<>>
  /\ calls[2].delivered = <<calls[2].arrived[2]>>
  /\ calls[2].result = calls[2].arrived[2]

\* C25: a submit appends the user message and directly after it an empty assistant
\* placeholder tagged Atlas, sets isThinking and sets activeAgents to Atlas alone; the
\* user message of a submit and its placeholder stay next to each other in the log.
SubmitAppendsUserMessageAndPlaceholder ==
  [][/\ Len(calls') > Len(calls) =>
          LET n == Len(state.messages)
              userMessage == state'.messages[n + 1]
              assistantPlaceholder == state'.messages[n + 2]
          IN /\ Len(state'.messages) = n + 2
             /\ SubSeq(state'.messages, 1, n) = state.messages
             /\ userMessage.role = "user"
             /\ userMessage.content # <<>>
             /\ ~has(userMessage, "agent")
             /\ assistantPlaceholder.role = "assistant"
             /\ assistantPlaceholder.content = <<>>
             /\ assistantPlaceholder.agent = ATLAS
             /\ assistantPlaceholder.id = calls'[Len(calls')].assistantId
             /\ state'.isThinking
             /\ state'.activeAgents = <<ATLAS>>
     /\ \A s \in DOMAIN calls' :
          /\ state'.messages[calls'[s].slot].id = calls'[s].assistantId
          /\ state'.messages[calls'[s].slot].role = "assistant"
          /\ state'.messages[calls'[s].slot - 1].role = "user"
          /\ state'.messages[calls'[s].slot - 1].timestamp = calls'[s].scheduledAt]_vars

\* a second submit was made after the first one's agents were revealed: its user message
\* and its empty placeholder are the last two messages and Atlas alone is active
SubmitAppendsUserMessageAndPlaceholderWitness ==
  /\ Len(calls) = 2
  /\ calls[1].revealed > 0
  /\ Len(state.messages) = 4
  /\ state.messages[3].role = "user"
  /\ state.messages[4].role = "assistant" /\ state.messages[4].content = <<>>
  /\ state.messages[4].agent = ATLAS
  /\ state.isThinking
  /\ state.activeAgents = <<ATLAS>>

\* C26: a chunk update changes the content of exactly one message, the placeholder of the
\* submit that issued the gateway call: no user message, no import message and no
\* placeholder of another submit changes.
ChunkChangesOnlyItsPlaceholder ==
  [][\A s \in DOMAIN calls :
       calls'[s].delivered # calls[s].delivered =>
         /\ Len(state'.messages) = Len(state.messages)
         /\ \A k \in DOMAIN state.messages :
              k # calls[s].slot => state'.messages[k] = state.messages[k]]_vars

\* the positions of the assistant messages of a log
assistantSlots(messages) == {k \in DOMAIN messages : messages[k].role = "assistant"}

\* C27: whenever the content of a message that is already in the log changes, that
\* message is the most recent assistant message of the log and the session is streaming
\* (isThinking is true), also when an import completes while a submit is streaming.
OnlyLatestAssistantMessageChanges ==
  [][\A k \in DOMAIN state.messages :
       state'.messages[k].content # state.messages[k].content =>
         /\ k \in assistantSlots(state.messages)
         /\ \A j \in assistantSlots(state.messages) : j <= k
         /\ state.isThinking]_vars

\* C28: no update is lost when callbacks interleave: a message appended by one callback
\* is still in the log, at its position, after every other callback has run, and the
\* placeholder of every call holds the concatenation of the chunks delivered to it so far.
NoUpdateIsLost ==
  [][/\ Len(state'.messages) >= Len(state.messages)
     /\ \A k \in DOMAIN state.messages : state'.messages[k].id = state.messages[k].id
     /\ \A s \in DOMAIN calls' :
          state'.messages[calls'[s].slot].content = concatenation(calls'[s].delivered)]_vars

\* C29: the message log is append-only: no step removes or reorders a message or makes
\* the log shorter, and a message keeps the id, role, agent tag and timestamp it was
\* appended with.
MessageLogIsAppendOnly ==
  [][/\ Len(state'.messages) >= Len(state.messages)
     /\ \A k \in DOMAIN state.messages :
          /\ state'.messages[k].id = state.messages[k].id
          /\ state'.messages[k].role = state.messages[k].role
          /\ state'.messages[k].timestamp = state.messages[k].timestamp
          /\ has(state'.messages[k], "agent") <=> has(state.messages[k], "agent")
          /\ has(state.messages[k], "agent") =>
               state'.messages[k].agent = state.messages[k].agent]_vars

\* an import's message was appended behind a placeholder that has received both its chunks
MessageLogIsAppendOnlyWitness ==
  /\ Len(state.messages) = 3
  /\ state.messages[1].role = "user"
  /\ state.messages[2].role = "assistant" /\ state.messages[2].agent = ATLAS
  /\ state.messages[2].content = <<"H","e","l","l","o",","," ","w","o","r","l","d">>
  /\ state.messages[3].role = "assistant" /\ state.messages[3].agent = ARCHITECT
  /\ state.messages[3].id # state.messages[2].id

\* s is a prefix of t
isPrefix(s, t) == Len(s) <= Len(t) /\ SubSeq(t, 1, Len(s)) = s

\* C30: while a single submit is in flight, activeAgents is Atlas followed by a prefix of
\* that submit's workflow, in workflow order: a timer adds at most one label, and no
\* label occurs twice or comes from outside Atlas and the workflow.
ActiveAgentsArePrefixOfWorkflow ==
  [][/\ \A s \in DOMAIN calls' :
          inFlight' = {s} =>
            /\ state'.activeAgents # <<>>
            /\ Head(state'.activeAgents) = ATLAS
            /\ isPrefix(Tail(state'.activeAgents), calls'[s].workflow)
     /\ Len(state'.activeAgents) <= Len(state.activeAgents) + 1]_vars

(***************************************************************************)
(* Properties of the queries submitted, of failing streams, of the         *)
(* dispatcher together with the prompt, and of the selected file.          *)
(***************************************************************************)
\* C31: no user message with empty or whitespace-only content is ever appended to the
\* log: every entry point submits a query that is not blank.
NoBlankUserMessage ==
  [][\A k \in (Len(state.messages) + 1)..Len(state'.messages) :
       state'.messages[k].role = "user" => trim(state'.messages[k].content) # <<>>]_vars

\* the chat form submitted the trimmed text that was typed with blanks around it, and
\* the generator form submitted its request
NoBlankUserMessageWitness ==
  /\ Len(state.messages) = 4
  /\ state.messages[1].role = "user"
  /\ state.messages[1].content = <<"E","x","p","l","a","i","n"," ","a","u","t","h">>
  /\ state.messages[3].role = "user"
  /\ state.messages[3].content = GeneratorQuery(<<"a"," ","c","a","c","h","e">>)

\* C32: when the stream fails after k chunks were delivered, the placeholder's content
\* becomes those k chunks, concatenated, followed by the error fragment: what was
\* streamed is kept, the error fragment comes last, and the call delivers nothing after it.
FailureKeepsStreamedContent ==
  [][\A s \in DOMAIN calls :
       /\ (calls[s].outcome = "pending" /\ calls'[s].outcome = "failed") =>
            /\ calls[s].delivered = nonEmptyOf(calls[s].arrived)
            /\ calls'[s].delivered = Append(calls[s].delivered, calls'[s].result)
            /\ state'.messages[calls[s].slot].content =
                 concatenation(calls[s].delivered) \o friendlyError(<<"q","u","o","t","a"," ","e","x","c","e","e","d","e","d">>)
                 \/ state'.messages[calls[s].slot].content =
                      concatenation(calls[s].delivered) \o friendlyError(<<"U","n","k","n","o","w","n"," ","A","P","I"," ","f","a","i","l","u","r","e">>)
       /\ calls[s].outcome = "failed" =>
            /\ calls'[s].delivered = calls[s].delivered
            /\ calls'[s].streamedContent = calls[s].streamedContent
            /\ calls'[s].pc = calls[s].pc]_vars

\* a stream failed after its two chunks: the placeholder reads "Hello, world" and then
\* the error fragment
FailureKeepsStreamedContentWitness ==
  \E s \in DOMAIN calls :
    /\ calls[s].outcome = "failed"
    /\ Len(calls[s].delivered) = 3
    /\ placeholderOf(state, s).content = <<"H","e","l","l","o",","," ","w","o","r","l","d">> \o calls[s].result
    /\ includes(calls[s].result, AgentErrorMarker)

\* C33: the dispatcher and the prompt assembly agree in one direction: a query for which
\* getAgentWorkflow returns a workflow that starts with Explorer, Architect (the triggers
\* architecture, structure, overview and audit) gets a prompt with the structure block.
ExplorerArchitectQueryGetsStructureBlock ==
  assembled =>
    (startsWith(getAgentWorkflow(query), <<EXPLORER, ARCHITECT>>) =>
       /\ startsWith(prompt, structureHeading \o stringifyNodes(state.repoStructure, 0))
       /\ endsWith(prompt, queryBlock(query)))

\* the query AUDIT, in capitals, is dispatched to Explorer, Architect, Security, Explainer
\* and its prompt starts with the structure block
ExplorerArchitectQueryGetsStructureBlockWitness ==
  /\ assembled
  /\ query = <<"A","U","D","I","T">>
  /\ getAgentWorkflow(query) = <<EXPLORER, ARCHITECT, SECURITY, EXPLAINER>>
  /\ startsWith(prompt, structureHeading)
  /\ Len(state.repoStructure) = Len(MOCK_REPO) + 1

\* t is one of the words of q, in any letter case
standsAlone(q, t) == t \in Range(split(toLowerCase(q), " "))

\* C34: triggers are matched as substrings, not as whole words: when the trigger that
\* decides a query occurs in it only inside longer words (change in exchange, write in
\* rewrite), the query gets that trigger's sequence, the one the trigger alone gets.
TriggerInsideWordSelectsBucket ==
  dispatched =>
    \A k \in matching(query) :
      (k = earliest(matching(query)) /\ ~standsAlone(query, workflowDefinitions[k].trigger)) =>
        /\ workflow = workflowDefinitions[k].agents
        /\ workflow = getAgentWorkflow(workflowDefinitions[k].trigger)

\* the query "hello rewrite" has no trigger as a word and is dispatched as write is
TriggerInsideWordSelectsBucketWitness ==
  /\ dispatched
  /\ query = <<"h","e","l","l","o"," ","r","e","w","r","i","t","e">>
  /\ ~standsAlone(query, <<"w","r","i","t","e">>)
  /\ workflow = <<ARCHITECT, GENERATOR, SECURITY>>

====
